---- MODULE Spec2Model ----
(***************************************************************************)
(* Model of LD_iOptron.py: the AzMountPro controller of an iOptron AZ      *)
(* Mount Pro, the serial link it talks over, and the mount at the other    *)
(* end of the link.                                                        *)
(*                                                                         *)
(* The controller is one thread of control; pc is its position.  Every     *)
(* _SendMessage call is two steps: the write of the command, which the     *)
(* mount receives, and the read of the reply from the serial input         *)
(* buffer rx, which the mount fills in a step of its own.  A read that     *)
(* finds less than it asked for may end by the 2 s transport timeout and   *)
(* return what is there.  Angles on the wire and in the mount are integers *)
(* in hundredths of an arcsecond.  Python exceptions end the running call  *)
(* with result set to the exception's name.                                *)
(***************************************************************************)
EXTENDS Integers, Sequences, FiniteSets, TLC

VARIABLES
    pc,          \* position of the controller thread
    op,          \* the public operation running, or the last one run
    arg,         \* its arguments: [alt, az, units]
    ip,          \* index of the command __init__ is at, 12 once past them
    version,     \* local of __init__: the reply to ":V#"
    new_Alt,     \* self.new_Alt (no attribute, and never read, before line 122)
    new_Az,      \* self.new_Az (the same, line 123)
    wire,        \* the commands written to the transport by the current call
    rx,          \* serial input buffer: bytes sent by the mount, not yet read
    pending,     \* commands the mount has received and not yet answered
    reply,       \* what the last _SendMessage returned
    result,      \* outcome of the call: "running", "ok" or an exception name
    move_Reply,  \* local of _Move: the integer read after ":MS#", -1 if none
    set_Reply,   \* locals of Set_AltAz: <<alt_Reply, az_Reply>>, -1 if none
    polls,       \* iterations of the polling loop of the current call
    late,        \* bytes of the answers whose read timed out before they came
    measured,    \* locals of Is_At_AltAz: <<altitude_Actual, azimuth_Actual>>
    mSys,        \* mount: system-state digit of its status
    mPos         \* mount: <<altitude, azimuth>>, hundredths of an arcsecond

vars == <<pc, op, arg, ip, version, new_Alt, new_Az, wire, rx, pending,
          reply, result, move_Reply, set_Reply, polls, late, measured, mSys,
          mPos>>

(***************************************************************************)
(* Bounds of the model.                                                    *)
(***************************************************************************)
\* iterations of a polling loop (Go_Home, Go_Blocking) followed in one call
MaxPolls == 2
\* bytes of answers that reach the serial buffer after the read that waited
\* for them has timed out
MaxLateBytes == 1
\* calls begun by the callers that share one controller
MaxCalls == 3

(***************************************************************************)
(* Python strings.  Indexes are 0-based as in the source.                  *)
(***************************************************************************)
Min(a, b) == IF a <= b THEN a ELSE b

\* s[a:b] for 0 <= a, 0 <= b
Slice(s, a, b) ==
    IF a < Min(b, Len(s)) THEN SubSeq(s, a + 1, Min(b, Len(s))) ELSE ""

\* s[a:]
SliceFrom(s, a) == Slice(s, a, Len(s))

\* s[:-1]
DropLast(s) == Slice(s, 0, Len(s) - 1)

\* s[i], defined for 0 <= i < len(s); the source raises IndexError elsewhere
CharAt(s, i) == SubSeq(s, i + 1, i + 1)

Digits == {"0", "1", "2", "3", "4", "5", "6", "7", "8", "9"}

DigitVal(c) ==
    CASE c = "0" -> 0 [] c = "1" -> 1 [] c = "2" -> 2 [] c = "3" -> 3
      [] c = "4" -> 4 [] c = "5" -> 5 [] c = "6" -> 6 [] c = "7" -> 7
      [] c = "8" -> 8 [] c = "9" -> 9

AllDigits(s) == \A i \in 1..Len(s) : SubSeq(s, i, i) \in Digits

\* the strings int() accepts: an optional sign, then at least one digit
IsInt(s) ==
    LET body == IF Len(s) > 0 /\ CharAt(s, 0) \in {"+", "-"}
                THEN SliceFrom(s, 1) ELSE s
    IN  Len(body) > 0 /\ AllDigits(body)

RECURSIVE NatVal(_)
NatVal(s) ==
    IF Len(s) = 0 THEN 0
    ELSE 10 * NatVal(DropLast(s)) + DigitVal(CharAt(s, Len(s) - 1))

\* int(s), for the strings of IsInt
IntVal(s) ==
    IF CharAt(s, 0) = "-" THEN 0 - NatVal(SliceFrom(s, 1))
    ELSE IF CharAt(s, 0) = "+" THEN NatVal(SliceFrom(s, 1))
    ELSE NatVal(s)

\* str(n)
Str(n) == ToString(n)

RECURSIVE RJust(_, _)
\* s.rjust(w, "0")
RJust(s, w) == IF Len(s) >= w THEN s ELSE RJust("0" \o s, w)

\* position (1-based) of the first "#" of s, 0 if there is none
HashAt(s) ==
    LET at == {i \in 1..Len(s) : SubSeq(s, i, i) = "#"}
    IN  IF at = {} THEN 0 ELSE CHOOSE i \in at : \A j \in at : i <= j

Abs(x) == IF x < 0 THEN 0 - x ELSE x

(***************************************************************************)
(* The mount, as the protocol described in the docstrings has it answer.   *)
(***************************************************************************)
\* system-state digits the mount reports: stopped, slewing, stopped at home
SysStates == {"0", "2", "7"}

Home == <<0, 0>>
\* 80 deg, 190 deg: the target of TestRun
Target == <<28800000, 68400000>>
\* 80.05 deg, 190 deg: within the 0.1 deg margin of Target, not on it
NearTarget == <<28818000, 68400000>>

MountPositions == {Home, Target, NearTarget}

KeyPadCmds == {":mn#", ":ms#", ":mw#", ":me#"}

\* the reply to ":GAC#": sign and 8 digits of altitude, 9 digits of azimuth
FormatAltAz(p) ==
    (IF p[1] >= 0 THEN "+" ELSE "-") \o RJust(Str(Abs(p[1])), 8)
        \o RJust(Str(p[2]), 9) \o "#"

\* the reply to ":GAS#": six status digits, the second the system state
FormatStatus(sys) == "0" \o sys \o "0911#"

\* what the mount may answer to command c in its current state
MountAnswers(c) ==
    CASE c = ":V#" -> {"V1.00#", "V1.01#"}
      [] c = ":MountInfo#" -> {"5035", "0030"}
      [] c \in {":FW1#", ":FW2#"} -> {"150101150101#"}
      [] c = ":GAS#" -> {FormatStatus(mSys)}
      [] c = ":GLT#" -> {"+0000200101120000#"}
      [] c = ":Gt#" -> {"+185400#"}
      [] c = ":Gg#" -> {"-009360#"}
      [] c = ":GAC#" -> {FormatAltAz(mPos)}
      [] OTHER -> {"0", "1"}

(***************************************************************************)
(* _SendMessage: the write, then the read.                                 *)
(***************************************************************************)
\* the "expected" argument: a byte count, or the byte that ends the reply
Count(n) == [kind |-> "count", n |-> n]
Until == [kind |-> "until", n |-> 0]

\* self.mount.write(command); self.mount.flush(): the mount has the command.
\* The keypad commands are the ones the mount does not answer.
Write(c) ==
    /\ wire' = Append(wire, c)
    /\ pending' = IF c \in KeyPadCmds THEN pending ELSE Append(pending, c)

\* how many bytes of rx a read with this contract takes, 0 when they are not
\* (yet) there
Avail(expected) ==
    IF expected.kind = "count"
    THEN (IF Len(rx) >= expected.n THEN expected.n ELSE 0)
    ELSE HashAt(rx)

\* the length of the mount's answer to command c
AnswerLen(c) == Len(CHOOSE a \in MountAnswers(c) : TRUE)

\* self.mount.read(n) / self.mount.read_until(b"#"): the outcomes of one read.
\* With the bytes there, they are taken.  Otherwise the read returns what
\* has arrived when the timeout ends it: after the mount has answered all it
\* was sent, or before the answer to the command just written, which then
\* comes late.
Reads(expected) ==
    IF expected.kind = "count" /\ expected.n = 0
    THEN {[data |-> "", rest |-> rx, late |-> 0]}
    ELSE IF Avail(expected) > 0
    THEN {[data |-> Slice(rx, 0, Avail(expected)),
           rest |-> SliceFrom(rx, Avail(expected)), late |-> 0]}
    ELSE IF pending = <<>>
    THEN {[data |-> rx, rest |-> "", late |-> 0]}
    ELSE IF late + AnswerLen(pending[Len(pending)]) <= MaxLateBytes
    THEN {[data |-> rx, rest |-> "",
           late |-> AnswerLen(pending[Len(pending)])]}
    ELSE {}

\* the read of _SendMessage returning d
Read(d) ==
    /\ reply' = d.data
    /\ rx' = d.rest
    /\ late' = late + d.late

\* the mount answers the oldest command it has not answered yet
MountReply ==
    /\ pending # <<>>
    /\ \E a \in MountAnswers(Head(pending)) : rx' = rx \o a
    /\ pending' = Tail(pending)
    /\ UNCHANGED <<pc, op, arg, ip, version, new_Alt, new_Az, wire, reply,
                   result, move_Reply, set_Reply, polls, late, measured, mSys,
                   mPos>>

\* the mount moves or changes state on its own account
MountStep ==
    /\ \E s \in SysStates, p \in MountPositions :
          /\ <<s, p>> # <<mSys, mPos>>
          /\ mSys' = s
          /\ mPos' = p
    /\ UNCHANGED <<pc, op, arg, ip, version, new_Alt, new_Az, wire, rx,
                   pending, reply, result, move_Reply, set_Reply, polls, late,
                   measured>>

(***************************************************************************)
(* How a call ends.                                                        *)
(***************************************************************************)
\* an exception leaves the call; out of __init__ it leaves no object behind
Raise(kind) ==
    /\ result' = kind
    /\ pc' = IF op = "init" THEN "dead" ELSE "idle"

\* the call returns
Return ==
    /\ result' = "ok"
    /\ pc' = "idle"

(***************************************************************************)
(* Encoding of the commands.                                               *)
(***************************************************************************)
units_Allowed == {"arcsec", "degrees", "radians"}

\* int(value / 0.01) after Degrees_To_Arcsec: the value in hundredths of an
\* arcsecond.  The model's inputs are whole degrees or whole arcseconds, for
\* which the floating-point quotient is the exact integer.
ToHundredths(value, units) ==
    CASE units = "degrees" -> value * 3600 * 100
      [] units = "arcsec" -> value * 100

\* line 368: the range assertion of _Set_Altitude is commented out
AltitudeAccepted(altitude) == TRUE

\* line 440
AzimuthAccepted(azimuth) == (azimuth >= 0) /\ (azimuth <= 129600000)

\* lines 370-377
AltitudeCmd(altitude) ==
    ":Sa" \o (IF altitude >= 0 THEN "+" ELSE "") \o RJust(Str(altitude), 8)
          \o "#"

\* line 443
AzimuthCmd(azimuth) == ":Sz" \o RJust(Str(azimuth), 9) \o "#"

\* lines 400-408, limit in degrees
AltLimitAccepted(limit) == (limit >= -89) /\ (limit <= 89)

AltLimitCmd(limit) ==
    ":SAL" \o (IF limit >= 0 THEN "+" ELSE "") \o RJust(Str(limit), 2) \o "#"

rates_Available ==
    [r \in {"1x", "2x", "8x", "16x", "64x", "128x", "256x", "512x", "max"} |->
        CASE r = "1x" -> "1" [] r = "2x" -> "2" [] r = "8x" -> "3"
          [] r = "16x" -> "4" [] r = "64x" -> "5" [] r = "128x" -> "6"
          [] r = "256x" -> "7" [] r = "512x" -> "8" [] r = "max" -> "9"]

MoveRateCmd(rate) == ":SR" \o rates_Available[rate] \o "#"

TrackCmd(do_Tracking) == IF do_Tracking THEN ":ST1#" ELSE ":ST0#"

(***************************************************************************)
(* Decoding of the replies.                                                *)
(***************************************************************************)
\* the six tables of Get_StatusInfo, in the order of the status digits
StatusTables ==
    << {"0", "1", "2"},
       {"0", "1", "2", "3", "4", "5", "6", "7"},
       {"0", "1", "2", "3", "4"},
       {"1", "2", "3", "4", "5", "6", "7", "8", "9"},
       {"0", "1", "2", "3"},
       {"0", "1"} >>

\* Get_StatusInfo(readable=True): the exception the six lookups end in
ReadableError(status) ==
    LET bad == {i \in 0..5 : \/ i >= Len(status)
                             \/ CharAt(status, i) \notin StatusTables[i + 1]}
        first == CHOOSE i \in bad : \A j \in bad : i <= j
    IN  IF bad = {} THEN "none"
        ELSE IF first >= Len(status) THEN "IndexError"
        ELSE "KeyError"

\* Get_TimeInfo: time_Reply[4], int(tz[1:]), then dateutil's parse, which is
\* taken to accept the replies of the declared form and no other
TimeInfoError(time_Reply) ==
    IF Len(time_Reply) < 5 THEN "IndexError"
    ELSE IF ~IsInt(Slice(time_Reply, 1, 4)) THEN "ValueError"
    ELSE IF ~(/\ Len(time_Reply) >= 17
              /\ CharAt(time_Reply, 0) \in {"+", "-"}
              /\ AllDigits(Slice(time_Reply, 1, 17)))
    THEN "ValueError"
    ELSE "none"

\* Is_Homed / Is_Slewing / Is_Stopped / Is_Tracking read
\* Get_StatusInfo(False)[1]: the second character of the reply less its last
PackedError(status) == IF Len(DropLast(status)) < 2 THEN "IndexError" ELSE "none"

SystemDigit(status) == CharAt(DropLast(status), 1)

\* Is_Homed with the test of Is_Stopped
Is_Homed_AsStopped(status) == SystemDigit(status) \in {"0", "6", "7"}

Is_Homed(status) == SystemDigit(status) = "7"

Is_Stopped(status) == SystemDigit(status) \in {"0", "6", "7"}

Is_Slewing(status) == SystemDigit(status) = "2"

\* Is_Tracking without the state of tracking with PEC enabled
Is_Tracking_PECDisabled(status) == SystemDigit(status) = "1"

Is_Tracking(status) == SystemDigit(status) \in {"1", "5"}

(***************************************************************************)
(* __init__                                                                *)
(***************************************************************************)
NoArg == [alt |-> 0, az |-> 0, units |-> "degrees"]

\* the commands of __init__ with the status read before the baseline is set
InitCmd_StatusFirst(i) ==
    CASE i = 1 -> ":V#"
      [] i = 2 -> ":MountInfo#"
      [] i = 3 -> ":FW1#"
      [] i = 4 -> ":FW2#"
      [] i = 5 -> ":GAS#"
      [] i = 6 -> MoveRateCmd("max")
      [] i = 7 -> AltLimitCmd(-89)
      [] i = 8 -> TrackCmd(FALSE)
      [] i = 9 -> ":GLT#"
      [] i = 10 -> ":Gt#"
      [] i = 11 -> ":Gg#"

\* the commands of __init__ up to Go_Home, in the order of lines 96-117
InitCmd(i) ==
    CASE i = 1 -> ":V#"
      [] i = 2 -> ":MountInfo#"
      [] i = 3 -> ":FW1#"
      [] i = 4 -> ":FW2#"
      [] i = 5 -> TrackCmd(FALSE)
      [] i = 6 -> MoveRateCmd("max")
      [] i = 7 -> AltLimitCmd(-89)
      [] i = 8 -> ":GAS#"
      [] i = 9 -> ":GLT#"
      [] i = 10 -> ":Gt#"
      [] i = 11 -> ":Gg#"

LastInitCmd == 11

InitExpected(i) ==
    IF i = 2 THEN Count(4) ELSE IF i \in {5, 6, 7} THEN Count(1) ELSE Until

\* line 99 without the check of the model
HandshakeOK_VersionOnly(v, model) == DropLast(v) = "V1.00"

\* line 99
HandshakeOK(v, model) == (DropLast(v) = "V1.00") /\ (model = "5035")

\* the exception the handling of the reply to the i-th command ends in
InitError(i, r) ==
    CASE i = 2 -> IF HandshakeOK(version, r) THEN "none" ELSE "AssertionError"
      [] i \in {5, 6, 7} -> IF IsInt(r) THEN "none" ELSE "ValueError"
      [] i = 8 -> ReadableError(r)
      [] i = 9 -> TimeInfoError(r)
      [] i \in {10, 11} ->
            IF IsInt(Slice(r, 1, Len(r) - 1)) THEN "none" ELSE "ValueError"
      [] OTHER -> "none"

Init ==
    /\ pc = "init_w"
    /\ op = "init"
    /\ arg = NoArg
    /\ ip = 1
    /\ version = ""
    /\ new_Alt = FALSE
    /\ new_Az = FALSE
    /\ wire = <<>>
    /\ rx = ""
    /\ pending = <<>>
    /\ reply = ""
    /\ result = "running"
    /\ move_Reply = -1
    /\ set_Reply = <<-1, -1>>
    /\ polls = 0
    /\ late = 0
    /\ measured = <<0, 0>>
    /\ mSys \in SysStates
    /\ mPos \in MountPositions

\* the write of the ip-th command of __init__
Init_Send ==
    /\ pc = "init_w"
    /\ Write(InitCmd(ip))
    /\ pc' = "init_r"
    /\ UNCHANGED <<op, arg, ip, version, new_Alt, new_Az, rx, reply, result,
                   move_Reply, set_Reply, polls, late, measured, mSys, mPos>>

\* the read of its reply and what __init__ does with it; after the last one,
\* lines 122-125: the flags are set False and Go_Home runs
Init_Recv ==
    /\ pc = "init_r"
    /\ \E d \in Reads(InitExpected(ip)) :
          /\ Read(d)
          /\ IF InitError(ip, d.data) # "none"
             THEN /\ Raise(InitError(ip, d.data))
                  /\ UNCHANGED <<ip, version, new_Alt, new_Az>>
             ELSE /\ ip' = ip + 1
                  /\ version' = IF ip = 1 THEN d.data ELSE version
                  /\ UNCHANGED result
                  /\ IF ip = LastInitCmd
                     THEN /\ new_Alt' = FALSE
                          /\ new_Az' = FALSE
                          /\ pc' = "home_w"
                     ELSE /\ UNCHANGED <<new_Alt, new_Az>>
                          /\ pc' = "init_w"
    /\ UNCHANGED <<op, arg, wire, pending, move_Reply, set_Reply, polls,
                   measured, mSys, mPos>>

(***************************************************************************)
(* Calls of the public operations.                                         *)
(***************************************************************************)
\* a caller invokes operation name with arguments a; its first step is at
BeginCall(name, a, at) ==
    /\ pc = "idle"
    /\ op' = name
    /\ arg' = a
    /\ pc' = at
    /\ wire' = <<>>
    /\ reply' = ""
    /\ result' = "running"
    /\ move_Reply' = -1
    /\ set_Reply' = <<-1, -1>>
    /\ polls' = 0
    /\ measured' = <<0, 0>>
    /\ UNCHANGED <<ip, version, new_Alt, new_Az, rx, pending, late, mSys, mPos>>

(***************************************************************************)
(* Go_Home and its polling of Is_Homed                                     *)
(***************************************************************************)
Call_Go_Home ==
    /\ pc = "idle"
    /\ BeginCall("Go_Home", NoArg, "home_w")

\* line 682, the write
Go_Home_Send ==
    /\ pc = "home_w"
    /\ Write(":MH#")
    /\ pc' = "home_r"
    /\ UNCHANGED <<op, arg, ip, version, new_Alt, new_Az, rx, reply, result,
                   move_Reply, set_Reply, polls, late, measured, mSys, mPos>>

\* line 682, the read and int()
Go_Home_Recv ==
    /\ pc = "home_r"
    /\ \E d \in Reads(Count(1)) :
          /\ Read(d)
          /\ IF IsInt(d.data)
             THEN pc' = "homed_w" /\ UNCHANGED result
             ELSE Raise("ValueError")
    /\ UNCHANGED <<op, arg, ip, version, new_Alt, new_Az, wire, pending,
                   move_Reply, set_Reply, polls, measured, mSys, mPos>>

\* the poll of Go_Home sending the home command again
Is_Homed_Send_Rehome ==
    /\ pc = "homed_w"
    /\ Write(":MH#")
    /\ pc' = "homed_r"
    /\ UNCHANGED <<op, arg, ip, version, new_Alt, new_Az, rx, reply, result,
                   move_Reply, set_Reply, polls, late, measured, mSys, mPos>>

\* line 684: Is_Homed writes the status query
Is_Homed_Send ==
    /\ pc = "homed_w"
    /\ Write(":GAS#")
    /\ pc' = "homed_r"
    /\ UNCHANGED <<op, arg, ip, version, new_Alt, new_Az, rx, reply, result,
                   move_Reply, set_Reply, polls, late, measured, mSys, mPos>>

\* lines 684-687: Is_Homed reads the status; Go_Home returns when it is
\* true, and sleeps and polls again when it is not
Is_Homed_Recv ==
    /\ pc = "homed_r"
    /\ \E d \in Reads(Until) :
          /\ Read(d)
          /\ IF PackedError(d.data) # "none"
             THEN Raise(PackedError(d.data)) /\ UNCHANGED polls
             ELSE IF Is_Homed(d.data)
             THEN Return /\ UNCHANGED polls
             ELSE /\ polls < MaxPolls
                  /\ polls' = polls + 1
                  /\ pc' = "homed_w"
                  /\ UNCHANGED result
    /\ UNCHANGED <<op, arg, ip, version, new_Alt, new_Az, wire, pending,
                   move_Reply, set_Reply, measured, mSys, mPos>>

(***************************************************************************)
(* The arguments the callers of the model pass.                            *)
(***************************************************************************)
Position(altitude, azimuth, units) ==
    [alt |-> altitude, az |-> azimuth, units |-> units]

\* altitude, azimuth, units: the target of TestRun, an altitude beyond
\* +90 deg, the azimuths 360 deg, 361 deg and -1 deg, an altitude below the
\* horizon, and the target of TestRun in arcseconds
TargetInputs ==
    { Position(80, 190, "degrees"),
      Position(91, 190, "degrees"),
      Position(80, 360, "degrees"),
      Position(80, 361, "degrees"),
      Position(80, -1, "degrees"),
      Position(-10, 190, "degrees"),
      Position(288000, 684000, "arcsec") }

\* altitude_Delta, azimuth_Delta, units: the deltas of TestRun, deltas that
\* leave the ranges, and a move down from near the target of TestRun
DeltaInputs ==
    { Position(10, -10, "degrees"),
      Position(80, 190, "degrees"),
      Position(-45, 10, "degrees") }

(***************************************************************************)
(* Get_AltAz                                                               *)
(***************************************************************************)
\* lines 182-184: the exception int() ends in, if any
Get_AltAz_Error(r) ==
    IF IsInt(Slice(DropLast(r), 0, 9)) /\ IsInt(SliceFrom(DropLast(r), 9))
    THEN "none" ELSE "ValueError"

\* lines 182-193: <<alt, az>>.  The value is kept in hundredths of an
\* arcsecond, whatever the unit it is returned in.
Get_AltAz(r) ==
    <<IntVal(Slice(DropLast(r), 0, 9)), IntVal(SliceFrom(DropLast(r), 9))>>

(***************************************************************************)
(* _Set_Altitude, _Set_Azimuth, Set_AltAz                                  *)
(***************************************************************************)
\* Go_Delta forms its targets in doubles: the reading times 0.01 and over
\* 3600 (lines 183-188), plus the delta (lines 667-668), times 3600 and over
\* 0.01, and int() truncates (lines 361-366, 433-438).  The doubles are not
\* modelled; these are the readings, deltas and units of the model for which
\* the last quotient falls just below the whole number, so that int() gives
\* one less than the sum: 80.05 - 45 becomes (35.05 * 3600) / 0.01 =
\* 12617999.999999998.
TruncatedSums == { <<28818000, -45, "degrees">> }

\* lines 665-674, then 361-366 or 433-438: the value _Set_Altitude or
\* _Set_Azimuth encodes for a reading and a delta
DeltaTarget(current, delta, units) ==
    current + ToHundredths(delta, units)
        - (IF <<current, delta, units>> \in TruncatedSums THEN 1 ELSE 0)

\* The altitude and azimuth that reach _Set_Altitude and _Set_Azimuth, in
\* hundredths of an arcsecond.  Go_Delta passes the position it read plus
\* the deltas (lines 667-674).
Altitude ==
    IF op = "Go_Delta"
    THEN DeltaTarget(measured[1], arg.alt, arg.units)
    ELSE ToHundredths(arg.alt, arg.units)

Azimuth ==
    IF op = "Go_Delta"
    THEN DeltaTarget(measured[2], arg.az, arg.units)
    ELSE ToHundredths(arg.az, arg.units)

\* lines 379-380: self.new_Alt after the acknowledgment alt_Reply
New_Alt_After(alt_Reply) == IF alt_Reply = 1 THEN TRUE ELSE new_Alt

\* lines 445-446: self.new_Az after the acknowledgment az_Reply
New_Az_After(az_Reply) == IF az_Reply = 1 THEN TRUE ELSE new_Az

Call_Set_Altitude ==
    /\ pc = "idle"
    /\ \E a \in TargetInputs : BeginCall("_Set_Altitude", a, "alt_w")

Call_Set_Azimuth ==
    /\ pc = "idle"
    /\ \E a \in TargetInputs : BeginCall("_Set_Azimuth", a, "az_w")

Call_Set_AltAz ==
    /\ pc = "idle"
    /\ \E a \in TargetInputs : BeginCall("Set_AltAz", a, "alt_w")

\* lines 357-378: the assertions, the encoding and the write of ":Sa"
Set_Altitude_Send ==
    /\ pc = "alt_w"
    /\ IF arg.units \in units_Allowed /\ AltitudeAccepted(Altitude)
       THEN /\ Write(AltitudeCmd(Altitude))
            /\ pc' = "alt_r"
            /\ UNCHANGED result
       ELSE /\ Raise("AssertionError")
            /\ UNCHANGED <<wire, pending>>
    /\ UNCHANGED <<op, arg, ip, version, new_Alt, new_Az, rx, reply,
                   move_Reply, set_Reply, polls, late, measured, mSys, mPos>>

\* lines 378-381: the read of the acknowledgment, int() and the flag; then
\* _Set_Altitude returns, to its caller or into Set_AltAz (line 419)
Set_Altitude_Recv ==
    /\ pc = "alt_r"
    /\ \E d \in Reads(Count(1)) :
          /\ Read(d)
          /\ IF ~IsInt(d.data)
             THEN Raise("ValueError") /\ UNCHANGED <<new_Alt, set_Reply>>
             ELSE /\ set_Reply' = <<IntVal(d.data), set_Reply[2]>>
                  /\ new_Alt' = New_Alt_After(IntVal(d.data))
                  /\ IF op = "_Set_Altitude"
                     THEN Return
                     ELSE pc' = "az_w" /\ UNCHANGED result
    /\ UNCHANGED <<op, arg, ip, version, new_Az, wire, pending, move_Reply,
                   polls, measured, mSys, mPos>>

\* lines 429-444: the assertions, the encoding and the write of ":Sz"
Set_Azimuth_Send ==
    /\ pc = "az_w"
    /\ IF arg.units \in units_Allowed /\ AzimuthAccepted(Azimuth)
       THEN /\ Write(AzimuthCmd(Azimuth))
            /\ pc' = "az_r"
            /\ UNCHANGED result
       ELSE /\ Raise("AssertionError")
            /\ UNCHANGED <<wire, pending>>
    /\ UNCHANGED <<op, arg, ip, version, new_Alt, new_Az, rx, reply,
                   move_Reply, set_Reply, polls, late, measured, mSys, mPos>>

\* lines 444-447: the read of the acknowledgment, int() and the flag; then
\* _Set_Azimuth returns, to its caller, out of Set_AltAz (line 421), or into
\* the _Move of Go_AltAz (line 642)
Set_Azimuth_Recv ==
    /\ pc = "az_r"
    /\ \E d \in Reads(Count(1)) :
          /\ Read(d)
          /\ IF ~IsInt(d.data)
             THEN Raise("ValueError") /\ UNCHANGED <<new_Az, set_Reply>>
             ELSE /\ set_Reply' = <<set_Reply[1], IntVal(d.data)>>
                  /\ new_Az' = New_Az_After(IntVal(d.data))
                  /\ IF op \in {"_Set_Azimuth", "Set_AltAz"}
                     THEN Return
                     ELSE pc' = "move_w" /\ UNCHANGED result
    /\ UNCHANGED <<op, arg, ip, version, new_Alt, wire, pending, move_Reply,
                   polls, measured, mSys, mPos>>

(***************************************************************************)
(* _Move, Go_AltAz, Go_Delta, Go_Blocking                                  *)
(***************************************************************************)
Call_Move ==
    /\ pc = "idle"
    /\ BeginCall("_Move", NoArg, "move_w")

Call_Go_AltAz ==
    /\ pc = "idle"
    /\ \E a \in TargetInputs : BeginCall("Go_AltAz", a, "alt_w")

Call_Go_Blocking ==
    /\ pc = "idle"
    /\ \E a \in TargetInputs : BeginCall("Go_Blocking", a, "alt_w")

Call_Go_Delta ==
    /\ pc = "idle"
    /\ \E a \in DeltaInputs : BeginCall("Go_Delta", a, "delta_w")

\* line 774 with "or" for "and"
MoveAllowed_Either == new_Alt \/ new_Az

\* line 774
MoveAllowed == new_Alt /\ new_Az

\* _Move without lines 776-777: the flags are left as they were
Move_Send_NoClear ==
    /\ pc = "move_w"
    /\ IF MoveAllowed
       THEN /\ Write(":MS#")
            /\ pc' = "move_r"
            /\ UNCHANGED result
       ELSE /\ Raise("AssertionError")
            /\ UNCHANGED <<wire, pending>>
    /\ UNCHANGED <<op, arg, ip, version, new_Alt, new_Az, rx, reply,
                   move_Reply, set_Reply, polls, late, measured, mSys, mPos>>

\* lines 774-778: the assertion, the clearing of the flags, the write of
\* ":MS#"
Move_Send ==
    /\ pc = "move_w"
    /\ IF MoveAllowed
       THEN /\ new_Alt' = FALSE
            /\ new_Az' = FALSE
            /\ Write(":MS#")
            /\ pc' = "move_r"
            /\ UNCHANGED result
       ELSE /\ Raise("AssertionError")
            /\ UNCHANGED <<new_Alt, new_Az, wire, pending>>
    /\ UNCHANGED <<op, arg, ip, version, rx, reply, move_Reply, set_Reply,
                   polls, late, measured, mSys, mPos>>

\* lines 778-783: the read of the acknowledgment and int(); a reply of 0 is
\* logged and returned like any other.  Go_Blocking goes on to its loop
\* (line 654), the other callers return.
Move_Recv ==
    /\ pc = "move_r"
    /\ \E d \in Reads(Count(1)) :
          /\ Read(d)
          /\ IF ~IsInt(d.data)
             THEN Raise("ValueError") /\ UNCHANGED move_Reply
             ELSE /\ move_Reply' = IntVal(d.data)
                  /\ IF op = "Go_Blocking"
                     THEN pc' = "at_w" /\ UNCHANGED result
                     ELSE Return
    /\ UNCHANGED <<op, arg, ip, version, new_Alt, new_Az, wire, pending,
                   set_Reply, polls, measured, mSys, mPos>>

\* line 665: Go_Delta's Get_AltAz writes the position query
Go_Delta_Send ==
    /\ pc = "delta_w"
    /\ Write(":GAC#")
    /\ pc' = "delta_r"
    /\ UNCHANGED <<op, arg, ip, version, new_Alt, new_Az, rx, reply, result,
                   move_Reply, set_Reply, polls, late, measured, mSys, mPos>>

\* lines 665-674: the position is read and Go_AltAz entered with the sums
Go_Delta_Recv ==
    /\ pc = "delta_r"
    /\ \E d \in Reads(Until) :
          /\ Read(d)
          /\ IF Get_AltAz_Error(d.data) # "none"
             THEN Raise(Get_AltAz_Error(d.data)) /\ UNCHANGED measured
             ELSE /\ measured' = Get_AltAz(d.data)
                  /\ pc' = "alt_w"
                  /\ UNCHANGED result
    /\ UNCHANGED <<op, arg, ip, version, new_Alt, new_Az, wire, pending,
                   move_Reply, set_Reply, polls, mSys, mPos>>

\* whether a reading, in hundredths of an arcsecond, is within 0.1 of a query
\* in degrees.  A reading has at most 9 digits, so that a query of 3000 or
\* more is farther from it than the margin; the product is not formed for
\* those, to stay in the range of the model checker's integers.
Within(actual, query) ==
    IF Abs(query) >= 3000 THEN FALSE
    ELSE Abs(actual - ToHundredths(query, "degrees")) <= 36000

\* lines 697-700 as Go_Blocking calls it: margin 0.1, units "degrees" by
\* default, the queries being the caller's numbers whatever their unit
Is_At_AltAz(actual, altitude_Query, azimuth_Query) ==
    Within(actual[1], altitude_Query) /\ Within(actual[2], azimuth_Query)

\* line 654: "self.Is_Stopped" names the method and does not call it; a
\* bound method is true
Is_Stopped_Operand == TRUE

\* line 654: the condition that ends the loop
Go_Blocking_Arrived(actual) ==
    Is_At_AltAz(actual, arg.alt, arg.az) /\ Is_Stopped_Operand

\* line 654: Is_At_AltAz writes the position query
Is_At_AltAz_Send ==
    /\ pc = "at_w"
    /\ Write(":GAC#")
    /\ pc' = "at_r"
    /\ UNCHANGED <<op, arg, ip, version, new_Alt, new_Az, rx, reply, result,
                   move_Reply, set_Reply, polls, late, measured, mSys, mPos>>

\* lines 654-657: the position is read and compared; Go_Blocking returns,
\* or sleeps and polls again
Is_At_AltAz_Recv ==
    /\ pc = "at_r"
    /\ \E d \in Reads(Until) :
          /\ Read(d)
          /\ IF Get_AltAz_Error(d.data) # "none"
             THEN /\ Raise(Get_AltAz_Error(d.data))
                  /\ UNCHANGED <<measured, polls>>
             ELSE /\ measured' = Get_AltAz(d.data)
                  /\ IF Go_Blocking_Arrived(Get_AltAz(d.data))
                     THEN Return /\ UNCHANGED polls
                     ELSE /\ polls < MaxPolls
                          /\ polls' = polls + 1
                          /\ pc' = "at_w"
                          /\ UNCHANGED result
    /\ UNCHANGED <<op, arg, ip, version, new_Alt, new_Az, wire, pending,
                   move_Reply, set_Reply, mSys, mPos>>

(***************************************************************************)
(* Stop, Stop_Keypad, Stop_LeftRight, Stop_UpDown, Calibrate, Reset_All:   *)
(* one command, one acknowledgment.                                        *)
(***************************************************************************)
AckCmd(name) ==
    CASE name = "Stop" -> ":Q#"
      [] name = "Stop_Keypad" -> ":q#"
      [] name = "Stop_LeftRight" -> ":qR#"
      [] name = "Stop_UpDown" -> ":qD#"
      [] name = "Calibrate" -> ":CM#"
      [] name = "Reset_All" -> ":RAS#"

AckOps ==
    {"Stop", "Stop_Keypad", "Stop_LeftRight", "Stop_UpDown", "Calibrate",
     "Reset_All"}

Call_Ack ==
    /\ pc = "idle"
    /\ \E name \in AckOps : BeginCall(name, NoArg, "ack_w")

Ack_Send ==
    /\ pc = "ack_w"
    /\ Write(AckCmd(op))
    /\ pc' = "ack_r"
    /\ UNCHANGED <<op, arg, ip, version, new_Alt, new_Az, rx, reply, result,
                   move_Reply, set_Reply, polls, late, measured, mSys, mPos>>

Ack_Recv ==
    /\ pc = "ack_r"
    /\ \E d \in Reads(Count(1)) :
          /\ Read(d)
          /\ IF IsInt(d.data) THEN Return ELSE Raise("ValueError")
    /\ UNCHANGED <<op, arg, ip, version, new_Alt, new_Az, wire, pending,
                   move_Reply, set_Reply, polls, measured, mSys, mPos>>

(***************************************************************************)
(* The setters that write one command and read one acknowledgment, KeyPad, *)
(* and the two operations that are not implemented.                        *)
(***************************************************************************)
\* line 485
LatitudeAccepted(latitude) == (-32400000 < latitude) /\ (latitude < 32400000)

\* line 512
LongitudeAccepted(longitude) ==
    (-64800000 < longitude) /\ (longitude < 64800000)

\* lines 487-493
LatitudeCmd(latitude) ==
    ":SLA" \o (IF latitude >= 0 THEN "+" ELSE "") \o RJust(Str(latitude), 8)
           \o "#"

\* lines 514-520
LongitudeCmd(longitude) ==
    ":SLO" \o (IF longitude >= 0 THEN "+" ELSE "") \o RJust(Str(longitude), 8)
           \o "#"

\* lines 568-570 with the test of the type left out
TimeOffsetAccepted_AnyType(minutes, is_Int) ==
    (-720 <= minutes) /\ (minutes <= 780)

\* lines 568-570; is_Int is type(minutes) == int
TimeOffsetAccepted(minutes, is_Int) ==
    (-720 <= minutes) /\ (minutes <= 780) /\ is_Int

\* lines 572-577: the number is written as str() gives it, without padding
TimeOffsetCmd(minutes) ==
    ":SG" \o (IF minutes >= 0 THEN "+" ELSE "") \o Str(minutes) \o "#"

\* lines 587-593
modes_Available ==
    [m \in {"siderial", "lunar", "solar", "king", "custom"} |->
        CASE m = "siderial" -> "0" [] m = "lunar" -> "1" [] m = "solar" -> "2"
          [] m = "king" -> "3" [] m = "custom" -> "4"]

\* line 594
TrackRateCmd(mode) == ":RT" \o modes_Available[mode] \o "#"

\* lines 758-761
directions ==
    [d \in {"up", "down", "left", "right"} |->
        CASE d = "up" -> ":mn#" [] d = "down" -> ":ms#"
          [] d = "left" -> ":mw#" [] d = "right" -> ":me#"]

\* lines 454-457: the command for False has no "#"
DSTCmd(is_DST) == IF is_DST THEN ":SDS1#" ELSE ":SDS0"

\* lines 463-466
HemisphereCmd(northern) == IF northern THEN ":SHE1#" ELSE ":SHE0#"

SetterOps ==
    {"Set_AltLimit", "Set_Latitude", "Set_Longitude", "Set_TimeOffset",
     "Set_MoveRate", "Set_TrackRate", "KeyPad", "Set_DST", "Set_Hemisphere",
     "Track"}

\* the exception operation name ends in before it writes, "none" if it writes
SetterError(name, a) ==
    CASE name = "Set_AltLimit" ->
            IF a.units \in units_Allowed /\ AltLimitAccepted(a.limit)
            THEN "none" ELSE "AssertionError"
      [] name = "Set_Latitude" ->
            IF /\ a.units \in units_Allowed
               /\ LatitudeAccepted(ToHundredths(a.latitude, a.units))
            THEN "none" ELSE "AssertionError"
      [] name = "Set_Longitude" ->
            IF /\ a.units \in units_Allowed
               /\ LongitudeAccepted(ToHundredths(a.longitude, a.units))
            THEN "none" ELSE "AssertionError"
      [] name = "Set_TimeOffset" ->
            IF TimeOffsetAccepted(a.minutes, a.is_Int)
            THEN "none" ELSE "AssertionError"
      [] name = "Set_MoveRate" ->
            IF a.rate \in DOMAIN rates_Available THEN "none" ELSE "KeyError"
      [] name = "Set_TrackRate" ->
            IF a.mode \in DOMAIN modes_Available THEN "none" ELSE "KeyError"
      [] name = "KeyPad" ->
            IF a.direction \in DOMAIN directions THEN "none" ELSE "KeyError"
      [] OTHER -> "none"

\* the command operation name writes
SetterCmd(name, a) ==
    CASE name = "Set_AltLimit" -> AltLimitCmd(a.limit)
      [] name = "Set_Latitude" -> LatitudeCmd(ToHundredths(a.latitude, a.units))
      [] name = "Set_Longitude" ->
            LongitudeCmd(ToHundredths(a.longitude, a.units))
      [] name = "Set_TimeOffset" -> TimeOffsetCmd(a.minutes)
      [] name = "Set_MoveRate" -> MoveRateCmd(a.rate)
      [] name = "Set_TrackRate" -> TrackRateCmd(a.mode)
      [] name = "KeyPad" -> directions[a.direction]
      [] name = "Set_DST" -> DSTCmd(a.is_DST)
      [] name = "Set_Hemisphere" -> HemisphereCmd(a.northern)
      [] name = "Track" -> TrackCmd(a.do_Tracking)

\* the "expected" argument of its _SendMessage: KeyPad reads nothing
SetterExpected(name) == IF name = "KeyPad" THEN Count(0) ELSE Count(1)

\* limit, units: the ends of the range, the values next to them, a negative
\* limit of one digit
AltLimitInputs ==
    { [limit |-> l, units |-> "degrees"] : l \in {-90, -89, -5, 0, 89, 90} }

\* latitude, units
LatitudeInputs ==
    { [latitude |-> l, units |-> "degrees"] : l \in {-91, -1, 52, 91} }

\* longitude, units
LongitudeInputs ==
    { [longitude |-> l, units |-> "degrees"] : l \in {-181, -100, -1, 181} }

\* minutes and whether it is an int (60 not being one stands for 60.0)
TimeOffsetInputs ==
    { [minutes |-> m, is_Int |-> TRUE] : m \in {-721, -720, 60, 780, 781} }
        \cup { [minutes |-> 60, is_Int |-> FALSE] }

MoveRateInputs == { [rate |-> r] : r \in {"64x", "max", "32x"} }

TrackRateInputs == { [mode |-> m] : m \in {"custom", "siderial", "sidereal"} }

KeyPadInputs == { [direction |-> d] : d \in {"up", "left", "north"} }

Call_Set_AltLimit ==
    /\ pc = "idle"
    /\ \E a \in AltLimitInputs : BeginCall("Set_AltLimit", a, "set_w")

Call_Set_Latitude ==
    /\ pc = "idle"
    /\ \E a \in LatitudeInputs : BeginCall("Set_Latitude", a, "set_w")

Call_Set_Longitude ==
    /\ pc = "idle"
    /\ \E a \in LongitudeInputs : BeginCall("Set_Longitude", a, "set_w")

Call_Set_TimeOffset ==
    /\ pc = "idle"
    /\ \E a \in TimeOffsetInputs : BeginCall("Set_TimeOffset", a, "set_w")

Call_Set_MoveRate ==
    /\ pc = "idle"
    /\ \E a \in MoveRateInputs : BeginCall("Set_MoveRate", a, "set_w")

Call_Set_TrackRate ==
    /\ pc = "idle"
    /\ \E a \in TrackRateInputs : BeginCall("Set_TrackRate", a, "set_w")

Call_KeyPad ==
    /\ pc = "idle"
    /\ \E a \in KeyPadInputs : BeginCall("KeyPad", a, "set_w")

Call_Set_DST ==
    /\ pc = "idle"
    /\ \E b \in BOOLEAN : BeginCall("Set_DST", [is_DST |-> b], "set_w")

Call_Set_Hemisphere ==
    /\ pc = "idle"
    /\ \E b \in BOOLEAN :
          BeginCall("Set_Hemisphere", [northern |-> b], "set_w")

Call_Track ==
    /\ pc = "idle"
    /\ \E b \in BOOLEAN : BeginCall("Track", [do_Tracking |-> b], "set_w")

\* the checks of the argument, the encoding and the write of the command
Setter_Send ==
    /\ pc = "set_w"
    /\ IF SetterError(op, arg) = "none"
       THEN /\ Write(SetterCmd(op, arg))
            /\ pc' = "set_r"
            /\ UNCHANGED result
       ELSE /\ Raise(SetterError(op, arg))
            /\ UNCHANGED <<wire, pending>>
    /\ UNCHANGED <<op, arg, ip, version, new_Alt, new_Az, rx, reply,
                   move_Reply, set_Reply, polls, late, measured, mSys, mPos>>

\* the read of the acknowledgment and int(); KeyPad reads no byte and
\* converts nothing
Setter_Recv ==
    /\ pc = "set_r"
    /\ \E d \in Reads(SetterExpected(op)) :
          /\ Read(d)
          /\ IF op = "KeyPad" \/ IsInt(d.data)
             THEN Return
             ELSE Raise("ValueError")
    /\ UNCHANGED <<op, arg, ip, version, new_Alt, new_Az, wire, pending,
                   move_Reply, set_Reply, polls, measured, mSys, mPos>>

\* lines 676 and 646: "def Go_Home(self)" and "def Go_Blocking(self,
\* altitude, azimuth, units, poll_Time)" have no parameter for a deadline.
\* A call that passes one is refused when Python binds the arguments, with
\* TypeError, before the body runs.
Call_Go_Home_Deadline ==
    /\ pc = "idle"
    /\ \E dl \in {1, 60} :
          /\ op' = "Go_Home"
          /\ arg' = [deadline |-> dl]
    /\ wire' = <<>>
    /\ reply' = ""
    /\ result' = "TypeError"
    /\ move_Reply' = -1
    /\ set_Reply' = <<-1, -1>>
    /\ polls' = 0
    /\ measured' = <<0, 0>>
    /\ UNCHANGED <<pc, ip, version, new_Alt, new_Az, rx, pending, late, mSys,
                   mPos>>

Call_Go_Blocking_Deadline ==
    /\ pc = "idle"
    /\ \E dl \in {1, 60} :
          /\ op' = "Go_Blocking"
          /\ arg' = [alt |-> 80, az |-> 190, units |-> "degrees",
                     deadline |-> dl]
    /\ wire' = <<>>
    /\ reply' = ""
    /\ result' = "TypeError"
    /\ move_Reply' = -1
    /\ set_Reply' = <<-1, -1>>
    /\ polls' = 0
    /\ measured' = <<0, 0>>
    /\ UNCHANGED <<pc, ip, version, new_Alt, new_Az, rx, pending, late, mSys,
                   mPos>>

\* Set_Meridian (line 533) and Set_UTCTime (line 617) returning as if done
Unsupported_Body_Silent ==
    /\ pc = "unsup"
    /\ Return
    /\ UNCHANGED <<op, arg, ip, version, new_Alt, new_Az, wire, rx, pending,
                   reply, move_Reply, set_Reply, polls, late, measured, mSys,
                   mPos>>

UnsupportedOps == {"Set_Meridian", "Set_UTCTime"}

\* option: the three digits of ":SMTnnn#"; datetime_Now: a time
Call_Set_Meridian ==
    /\ pc = "idle"
    /\ \E o \in {"000", "105"} :
          BeginCall("Set_Meridian", [option |-> o], "unsup")

Call_Set_UTCTime ==
    /\ pc = "idle"
    /\ \E t \in {"200101120000"} :
          BeginCall("Set_UTCTime", [datetime_Now |-> t], "unsup")

\* lines 533 and 617: the body is "raise NotImplementedError"
Unsupported_Body ==
    /\ pc = "unsup"
    /\ Raise("NotImplementedError")
    /\ UNCHANGED <<op, arg, ip, version, new_Alt, new_Az, wire, rx, pending,
                   reply, move_Reply, set_Reply, polls, late, measured, mSys,
                   mPos>>

(***************************************************************************)
(* Get_StatusInfo and the four predicates on the system state.             *)
(***************************************************************************)
StatusOps ==
    {"Get_StatusInfo", "Is_Homed", "Is_Slewing", "Is_Stopped", "Is_Tracking"}

\* a Python bool as the result of a call
Bool(b) == IF b THEN "True" ELSE "False"

\* the call returns the value v
ReturnValue(v) ==
    /\ result' = v
    /\ pc' = "idle"

\* the exception the handling of the status reply ends in, "none" if none:
\* the table lookups of lines 301-306, or the [1] of lines 707, 719, 731, 743
StatusError(name, a, status) ==
    IF name = "Get_StatusInfo"
    THEN (IF a.readable THEN ReadableError(status) ELSE "none")
    ELSE PackedError(status)

\* what the operation returns: a bool for the predicates; for Get_StatusInfo
\* the dictionary or the packed digits, which reply holds
StatusValue(name, status) ==
    CASE name = "Is_Homed" -> Bool(Is_Homed(status))
      [] name = "Is_Slewing" -> Bool(Is_Slewing(status))
      [] name = "Is_Stopped" -> Bool(Is_Stopped(status))
      [] name = "Is_Tracking" -> Bool(Is_Tracking(status))
      [] OTHER -> "ok"

Call_Get_StatusInfo ==
    /\ pc = "idle"
    /\ \E b \in BOOLEAN :
          BeginCall("Get_StatusInfo", [readable |-> b], "status_w")

Call_Is_Homed ==
    /\ pc = "idle"
    /\ BeginCall("Is_Homed", NoArg, "status_w")

Call_Is_Slewing ==
    /\ pc = "idle"
    /\ BeginCall("Is_Slewing", NoArg, "status_w")

Call_Is_Stopped ==
    /\ pc = "idle"
    /\ BeginCall("Is_Stopped", NoArg, "status_w")

Call_Is_Tracking ==
    /\ pc = "idle"
    /\ BeginCall("Is_Tracking", NoArg, "status_w")

\* line 261, the write
Status_Send ==
    /\ pc = "status_w"
    /\ Write(":GAS#")
    /\ pc' = "status_r"
    /\ UNCHANGED <<op, arg, ip, version, new_Alt, new_Az, rx, reply, result,
                   move_Reply, set_Reply, polls, late, measured, mSys, mPos>>

\* line 261, the read; then lines 300-316, or the test of the predicate
Status_Recv ==
    /\ pc = "status_r"
    /\ \E d \in Reads(Until) :
          /\ Read(d)
          /\ IF StatusError(op, arg, d.data) # "none"
             THEN Raise(StatusError(op, arg, d.data))
             ELSE ReturnValue(StatusValue(op, d.data))
    /\ UNCHANGED <<op, arg, ip, version, new_Alt, new_Az, wire, pending,
                   move_Reply, set_Reply, polls, measured, mSys, mPos>>

\* the mount's system state becomes any digit a status byte can carry
MountStatusStep ==
    /\ \E s \in Digits :
          /\ s # mSys
          /\ mSys' = s
    /\ UNCHANGED <<pc, op, arg, ip, version, new_Alt, new_Az, wire, rx,
                   pending, reply, result, move_Reply, set_Reply, polls, late,
                   measured, mPos>>

Next ==
    \/ Init_Send
    \/ Init_Recv
    \/ Call_Go_Home
    \/ Go_Home_Send
    \/ Go_Home_Recv
    \/ Is_Homed_Send
    \/ Is_Homed_Recv
    \/ Call_Set_Altitude
    \/ Call_Set_Azimuth
    \/ Call_Set_AltAz
    \/ Set_Altitude_Send
    \/ Set_Altitude_Recv
    \/ Set_Azimuth_Send
    \/ Set_Azimuth_Recv
    \/ Call_Move
    \/ Call_Go_AltAz
    \/ Call_Go_Blocking
    \/ Call_Go_Delta
    \/ Move_Send
    \/ Move_Recv
    \/ Go_Delta_Send
    \/ Go_Delta_Recv
    \/ Is_At_AltAz_Send
    \/ Is_At_AltAz_Recv
    \/ Call_Ack
    \/ Ack_Send
    \/ Ack_Recv
    \/ MountReply
    \/ MountStep

Spec == Init /\ [][Next]_vars

(***************************************************************************)
(* The setters and the unsupported operations, called on the controller    *)
(* once __init__ has completed with the mount at home, and the calls that  *)
(* pass a deadline to Go_Home or Go_Blocking.  None of them reads          *)
(* the state of the mount, whose changes are left out of these steps.      *)
(***************************************************************************)
InitOrder ==
    << ":V#", ":MountInfo#", ":FW1#", ":FW2#", ":ST0#", ":SR9#", ":SAL-89#",
       ":GAS#", ":GLT#", ":Gt#", ":Gg#", ":MH#" >>

\* the state __init__ leaves when every reply came in time and the first
\* poll of Go_Home found the mount at home
InitOps ==
    /\ pc = "idle"
    /\ op = "init"
    /\ arg = NoArg
    /\ ip = LastInitCmd + 1
    /\ version = "V1.00#"
    /\ new_Alt = FALSE
    /\ new_Az = FALSE
    /\ wire = Append(InitOrder, ":GAS#")
    /\ rx = ""
    /\ pending = <<>>
    /\ reply = FormatStatus("7")
    /\ result = "ok"
    /\ move_Reply = -1
    /\ set_Reply = <<-1, -1>>
    /\ polls = 0
    /\ late = 0
    /\ measured = <<0, 0>>
    /\ mSys = "7"
    /\ mPos = Home

NextOps ==
    \/ Call_Set_Altitude
    \/ Call_Set_Azimuth
    \/ Set_Altitude_Send
    \/ Set_Altitude_Recv
    \/ Set_Azimuth_Send
    \/ Set_Azimuth_Recv
    \/ Call_Set_AltLimit
    \/ Call_Set_Latitude
    \/ Call_Set_Longitude
    \/ Call_Set_TimeOffset
    \/ Call_Set_MoveRate
    \/ Call_Set_TrackRate
    \/ Call_KeyPad
    \/ Call_Set_DST
    \/ Call_Set_Hemisphere
    \/ Call_Track
    \/ Setter_Send
    \/ Setter_Recv
    \/ Call_Set_Meridian
    \/ Call_Set_UTCTime
    \/ Unsupported_Body
    \/ Call_Go_Home_Deadline
    \/ Call_Go_Blocking_Deadline
    \/ MountReply

SpecOps == InitOps /\ [][NextOps]_vars

(***************************************************************************)
(* The status queries on the same controller, with a mount whose system    *)
(* state takes every value of a digit; Track is there for the              *)
(* acknowledgment that comes late and is then read as the head of a status *)
(* reply.                                                                  *)
(***************************************************************************)
NextStatus ==
    \/ Call_Get_StatusInfo
    \/ Call_Is_Homed
    \/ Call_Is_Slewing
    \/ Call_Is_Stopped
    \/ Call_Is_Tracking
    \/ Status_Send
    \/ Status_Recv
    \/ Call_Track
    \/ Setter_Send
    \/ Setter_Recv
    \/ MountReply
    \/ MountStatusStep

SpecStatus == InitOps /\ [][NextStatus]_vars

(***************************************************************************)
(* Two callers on one controller.  _SendMessage takes no lock (lines       *)
(* 131-168), and the write and the read of the transport are blocking      *)
(* calls during which another thread runs.  Here pc, op, reply and result  *)
(* hold one value per caller; wire, rx and pending are those of the one    *)
(* transport, and polls counts the calls begun.  The callers invoke the    *)
(* operations of one command and one acknowledgment.                       *)
(***************************************************************************)
Callers == {"caller1", "caller2"}

InitConc ==
    /\ pc = [t \in Callers |-> "idle"]
    /\ op = [t \in Callers |-> "init"]
    /\ arg = NoArg
    /\ ip = LastInitCmd + 1
    /\ version = "V1.00#"
    /\ new_Alt = FALSE
    /\ new_Az = FALSE
    /\ wire = <<>>
    /\ rx = ""
    /\ pending = <<>>
    /\ reply = [t \in Callers |-> ""]
    /\ result = [t \in Callers |-> "ok"]
    /\ move_Reply = -1
    /\ set_Reply = <<-1, -1>>
    /\ polls = 0
    /\ late = 0
    /\ measured = <<0, 0>>
    /\ mSys = "7"
    /\ mPos = Home

\* caller t invokes Stop, Stop_Keypad, Stop_LeftRight, Stop_UpDown, Calibrate
\* or Reset_All
Conc_Call(t) ==
    /\ pc[t] = "idle"
    /\ polls < MaxCalls
    /\ polls' = polls + 1
    /\ \E name \in AckOps : op' = [op EXCEPT ![t] = name]
    /\ pc' = [pc EXCEPT ![t] = "ack_w"]
    /\ reply' = [reply EXCEPT ![t] = ""]
    /\ result' = [result EXCEPT ![t] = "running"]
    /\ UNCHANGED <<arg, ip, version, new_Alt, new_Az, wire, rx, pending,
                   move_Reply, set_Reply, late, measured, mSys, mPos>>

\* lines 144-152 in the thread of caller t: the write and the flush
Conc_Send(t) ==
    /\ pc[t] = "ack_w"
    /\ Write(AckCmd(op[t]))
    /\ pc' = [pc EXCEPT ![t] = "ack_r"]
    /\ UNCHANGED <<op, arg, ip, version, new_Alt, new_Az, rx, reply, result,
                   move_Reply, set_Reply, polls, late, measured, mSys, mPos>>

\* lines 154-168 in the thread of caller t: the read, then int() in the
\* operation
Conc_Recv(t) ==
    /\ pc[t] = "ack_r"
    /\ \E d \in Reads(Count(1)) :
          /\ reply' = [reply EXCEPT ![t] = d.data]
          /\ rx' = d.rest
          /\ late' = late + d.late
          /\ result' = [result EXCEPT
                          ![t] = IF IsInt(d.data) THEN "ok" ELSE "ValueError"]
    /\ pc' = [pc EXCEPT ![t] = "idle"]
    /\ UNCHANGED <<op, arg, ip, version, new_Alt, new_Az, wire, pending,
                   move_Reply, set_Reply, polls, measured, mSys, mPos>>

NextConc ==
    \/ \E t \in Callers : Conc_Call(t)
    \/ \E t \in Callers : Conc_Send(t)
    \/ \E t \in Callers : Conc_Recv(t)
    \/ MountReply

SpecConc == InitConc /\ [][NextConc]_vars

(***************************************************************************)
(* Get_AltAz as a public operation, and Go_Blocking's polls, on a line     *)
(* that may damage the reply to ":GAC#": the transport is a serial line    *)
(* without parity or flow control (lines 73-80) and the protocol has no    *)
(* checksum, so that a byte may be lost, repeated or changed on the way.   *)
(***************************************************************************)
\* reply r with the byte at offset i lost, sent twice, or unreadable
LoseByte(r, i) == Slice(r, 0, i) \o SliceFrom(r, i + 1)

RepeatByte(r, i) == Slice(r, 0, i + 1) \o SliceFrom(r, i)

GarbleByte(r, i) == Slice(r, 0, i) \o "?" \o SliceFrom(r, i + 1)

\* the offsets of the damage in reply r: the first digit of the azimuth (the
\* two numbers are not separated, line 172) and the last digit before the
\* terminator
DamagedAt(r) == {Len(r) - 10, Len(r) - 2}

\* the damaged forms of the reply to ":GAC#" at position p: one byte is lost,
\* repeated or unreadable
MalformedAltAz(p) ==
    UNION { { LoseByte(FormatAltAz(p), i), RepeatByte(FormatAltAz(p), i),
              GarbleByte(FormatAltAz(p), i) } :
            i \in DamagedAt(FormatAltAz(p)) }

\* the reply to the oldest unanswered ":GAC#" arrives damaged
MountReply_Malformed ==
    /\ pending # <<>>
    /\ Head(pending) = ":GAC#"
    /\ \E a \in MalformedAltAz(mPos) : rx' = rx \o a
    /\ pending' = Tail(pending)
    /\ UNCHANGED <<pc, op, arg, ip, version, new_Alt, new_Az, wire, reply,
                   result, move_Reply, set_Reply, polls, late, measured, mSys,
                   mPos>>

UnitInputs == units_Allowed \cup {"steps"}

Call_Get_AltAz ==
    /\ pc = "idle"
    /\ \E u \in UnitInputs : BeginCall("Get_AltAz", [units |-> u], "pos_w")

\* lines 179-182: the assertion on the unit and the write of ":GAC#"
Get_AltAz_Send ==
    /\ pc = "pos_w"
    /\ IF arg.units \in units_Allowed
       THEN /\ Write(":GAC#")
            /\ pc' = "pos_r"
            /\ UNCHANGED result
       ELSE /\ Raise("AssertionError")
            /\ UNCHANGED <<wire, pending>>
    /\ UNCHANGED <<op, arg, ip, version, new_Alt, new_Az, rx, reply,
                   move_Reply, set_Reply, polls, late, measured, mSys, mPos>>

\* lines 182-193: the read, [:-1], the two int() and the return of the
\* position
Get_AltAz_Recv ==
    /\ pc = "pos_r"
    /\ \E d \in Reads(Until) :
          /\ Read(d)
          /\ IF Get_AltAz_Error(d.data) # "none"
             THEN Raise(Get_AltAz_Error(d.data)) /\ UNCHANGED measured
             ELSE /\ measured' = Get_AltAz(d.data)
                  /\ Return
    /\ UNCHANGED <<op, arg, ip, version, new_Alt, new_Az, wire, pending,
                   move_Reply, set_Reply, polls, mSys, mPos>>

NextDecode ==
    \/ Call_Get_AltAz
    \/ Get_AltAz_Send
    \/ Get_AltAz_Recv
    \/ Call_Go_Blocking
    \/ Set_Altitude_Send
    \/ Set_Altitude_Recv
    \/ Set_Azimuth_Send
    \/ Set_Azimuth_Recv
    \/ Move_Send
    \/ Move_Recv
    \/ Is_At_AltAz_Send
    \/ Is_At_AltAz_Recv
    \/ MountReply
    \/ MountReply_Malformed
    \/ MountStep

SpecDecode == InitOps /\ [][NextDecode]_vars

(***************************************************************************)
(* Properties                                                              *)
(***************************************************************************)
\* the step writes command c to the transport
Writes(c) == wire' = Append(wire, c)

\* C1: ":MS#" is written only by a step that enters _Move with new_Alt and
\* new_Az both true, and _Move entered with either flag false ends in an
\* error and writes nothing.
C1_MoveOnlyWhenStaged ==
    [][ /\ Writes(":MS#") => (pc = "move_w" /\ new_Alt /\ new_Az)
        /\ (pc = "move_w" /\ pc' # pc /\ ~(new_Alt /\ new_Az)) =>
              /\ pc' = "idle"
              /\ result' = "AssertionError"
              /\ wire' = wire
              /\ pending' = pending ]_vars

\* C1 witness: _Move was called with exactly one axis staged and has failed
\* with nothing written.
C1_Witness ==
    /\ op = "_Move"
    /\ pc = "idle"
    /\ result = "AssertionError"
    /\ new_Alt # new_Az
    /\ wire = <<>>

\* C2: from the write of ":MS#" by Go_AltAz on, before its reply is read and
\* however the call ends (acknowledgment 1, acknowledgment 0, or a reply
\* that cannot be read or parsed), new_Alt and new_Az are both false.
C2_FlagsClearedByMove ==
    (op = "Go_AltAz" /\ Len(wire) > 0 /\ wire[Len(wire)] = ":MS#") =>
        (~new_Alt /\ ~new_Az)

\* C2 witness: Go_AltAz has returned with the move rejected.
C2_Witness ==
    /\ op = "Go_AltAz"
    /\ pc = "idle"
    /\ result = "ok"
    /\ move_Reply = 0

StoppedDigits == {"0", "6", "7"}

\* C3: Go_Blocking returns only when the position it last read is within
\* the margin of the target on both axes and the mount reports a stopped
\* system state (0, 6 or 7); it does not return while the mount reports
\* slewing.
C3_ReturnsOnlyStopped ==
    [][ (op = "Go_Blocking" /\ pc = "at_r" /\ result' = "ok") =>
            /\ Abs(measured'[1] - ToHundredths(arg.alt, arg.units)) <= 36000
            /\ Abs(measured'[2] - ToHundredths(arg.az, arg.units)) <= 36000
            /\ mSys \in StoppedDigits ]_vars

\* C4: once the mount has answered ":MS#" with 0, Go_AltAz, Go_Delta and
\* Go_Blocking have ended in an error: they neither return normally nor go
\* on (Go_Blocking into its polling).
C4_RejectedMoveIsError ==
    (op \in {"Go_AltAz", "Go_Delta", "Go_Blocking"} /\ move_Reply = 0) =>
        (pc = "idle" /\ result \notin {"ok", "running"})

\* the number of the commands of w that are c
RECURSIVE CountOf(_, _)
CountOf(w, c) ==
    IF w = <<>> THEN 0
    ELSE CountOf(Tail(w), c) + (IF Head(w) = c THEN 1 ELSE 0)

\* C5: Go_Home writes ":MH#" once; when it returns, the last command written
\* is a ":GAS#" after the ":MH#" and its reply carries system-state digit 7;
\* a status poll whose reply carries another digit is followed by the next
\* poll, not by the return.
C5_GoHomeWaitsForHome ==
    /\ [](op = "Go_Home" =>
            /\ CountOf(wire, ":MH#") <= 1
            /\ (pc \notin {"home_w"}) => (wire # <<>> /\ wire[1] = ":MH#")
            /\ (pc = "idle" /\ result = "ok") =>
                  /\ Len(wire) >= 2
                  /\ wire[Len(wire)] = ":GAS#"
                  /\ Len(reply) >= 2
                  /\ SubSeq(reply, 2, 2) = "7")
    /\ [][ (/\ op = "Go_Home" /\ pc = "homed_r" /\ pc' # pc
             /\ Len(reply') >= 3 /\ SubSeq(reply', 2, 2) # "7") =>
               (pc' = "homed_w" /\ result' = "running") ]_vars

\* C5 witness: Go_Home has returned after a poll that did not report home
\* and a later one that did.
C5_Witness ==
    /\ op = "Go_Home"
    /\ pc = "idle"
    /\ result = "ok"
    /\ polls >= 1

\* C6: the commands __init__ writes are, in this order, those of InitOrder
\* and then status polls only; ":MH#", the one motion command among them, is
\* written only when the reads after tracking-off, move-rate and
\* altitude-limit have returned and their replies have been accepted.
C6_InitOrder ==
    op = "init" =>
        /\ \A i \in 1..Len(wire) :
              wire[i] = IF i <= Len(InitOrder) THEN InitOrder[i] ELSE ":GAS#"
        /\ Len(wire) >= Len(InitOrder) => ip > LastInitCmd
        /\ ip > 7 => Len(wire) >= 7

\* C6 witness: __init__ has completed, Go_Home included.
C6_Witness ==
    /\ op = "init"
    /\ pc = "idle"
    /\ result = "ok"
    /\ Len(wire) > Len(InitOrder)

\* C7: when the reply to ":MountInfo#" is not "5035" or the reply to ":V#"
\* less its last byte is not "V1.00", __init__ ends in an error on reading
\* them, and nothing is written afterwards.
C7_HandshakeAborts ==
    [][ /\ (/\ pc = "init_r" /\ ip = 2 /\ pc' # pc
            /\ ~(version = "V1.00#" /\ reply' = "5035")) =>
              (pc' = "dead" /\ result' = "AssertionError" /\ wire' = wire)
        /\ pc = "dead" => (pc' = "dead" /\ wire' = wire) ]_vars

\* C7 witness: the version matched, the model did not, and __init__ has
\* ended with the two handshake queries its only writes.
C7_Witness ==
    /\ pc = "dead"
    /\ result = "AssertionError"
    /\ version = "V1.00#"
    /\ reply = "0030"
    /\ wire = <<":V#", ":MountInfo#">>

\* C8: when _Set_Altitude (resp. _Set_Azimuth) has returned with an
\* acknowledgment other than 1, new_Alt (resp. new_Az) is false, and the
\* command was written once.
C8_FailedAckLeavesFlagFalse ==
    /\ (op = "_Set_Altitude" /\ pc = "idle" /\ result = "ok" /\ reply # "1")
          => (~new_Alt /\ Len(wire) = 1)
    /\ (op = "_Set_Azimuth" /\ pc = "idle" /\ result = "ok" /\ reply # "1")
          => (~new_Az /\ Len(wire) = 1)

\* C9: a call of _Set_Azimuth, Set_AltAz or Go_AltAz with an azimuth below 0
\* or of 129,600,000 hundredths of an arcsecond (360 deg) or more writes
\* nothing and does not return normally.
C9_AzimuthOutOfRangeRejected ==
    (/\ op \in {"_Set_Azimuth", "Set_AltAz", "Go_AltAz"}
     /\ \/ ToHundredths(arg.az, arg.units) < 0
        \/ ToHundredths(arg.az, arg.units) >= 129600000) =>
        (wire = <<>> /\ result # "ok")

\* C10: a call of _Set_Altitude with an altitude beyond -90 deg or +90 deg
\* (32,400,000 hundredths of an arcsecond) writes nothing, does not return
\* normally and does not set new_Alt.
C10_AltitudeOutOfRangeRejected ==
    (/\ op = "_Set_Altitude"
     /\ Abs(ToHundredths(arg.alt, arg.units)) > 32400000) =>
        (wire = <<>> /\ result # "ok")

\* command c begins with the characters of p
StartsWith(c, p) == Slice(c, 0, Len(p)) = p

\* command c is opcode, one sign character, n decimal digits and "#"
SignedField(c, opcode, n) ==
    /\ Len(c) = Len(opcode) + 1 + n + 1
    /\ StartsWith(c, opcode)
    /\ CharAt(c, Len(opcode)) \in {"+", "-"}
    /\ AllDigits(Slice(c, Len(opcode) + 1, Len(opcode) + 1 + n))
    /\ CharAt(c, Len(c) - 1) = "#"

\* command c is opcode, n decimal digits and "#"
UnsignedField(c, opcode, n) ==
    /\ Len(c) = Len(opcode) + n + 1
    /\ StartsWith(c, opcode)
    /\ AllDigits(Slice(c, Len(opcode), Len(opcode) + n))
    /\ CharAt(c, Len(c) - 1) = "#"

\* C11: every command written by a signed-field setter is the opcode, one
\* sign, the declared number of digits (8 for ":Sa", ":SLA", ":SLO", 2 for
\* ":SAL") and "#", and every ":Sz" command is ":Sz", 9 digits and "#"; no
\* sign stands among the digits.
C11_FieldWidths ==
    \A i \in 1..Len(wire) :
        /\ StartsWith(wire[i], ":Sa") => SignedField(wire[i], ":Sa", 8)
        /\ StartsWith(wire[i], ":SLA") => SignedField(wire[i], ":SLA", 8)
        /\ StartsWith(wire[i], ":SLO") => SignedField(wire[i], ":SLO", 8)
        /\ StartsWith(wire[i], ":SAL") => SignedField(wire[i], ":SAL", 2)
        /\ StartsWith(wire[i], ":Sz") => UnsignedField(wire[i], ":Sz", 9)

\* C12: every command written to the transport starts with ":" and ends
\* with "#"; Set_DST writes ":SDS1#" or ":SDS0#" and Set_Hemisphere writes
\* ":SHE1#" or ":SHE0#".
C12_CommandsWellFormed ==
    /\ \A i \in 1..Len(wire) :
          /\ Len(wire[i]) >= 2
          /\ CharAt(wire[i], 0) = ":"
          /\ CharAt(wire[i], Len(wire[i]) - 1) = "#"
    /\ (op = "Set_DST" /\ wire # <<>>) => wire[1] \in {":SDS1#", ":SDS0#"}
    /\ (op = "Set_Hemisphere" /\ wire # <<>>) =>
          wire[1] \in {":SHE1#", ":SHE0#"}

\* C13: when the status reply read by Get_StatusInfo, Is_Stopped,
\* Is_Slewing, Is_Tracking or Is_Homed carries a system-state digit outside
\* 0..7, the call ends in an error: it returns neither a snapshot nor a
\* boolean.
C13_UnmappedDigitIsError ==
    (/\ op \in StatusOps
     /\ pc = "idle"
     /\ Len(reply) >= 2
     /\ SubSeq(reply, 2, 2) \in {"8", "9"}) =>
        result \notin {"ok", "True", "False"}

C15_DeadlineAccepted ==
    (/\ op \in {"Go_Home", "Go_Blocking"}
     /\ "deadline" \in DOMAIN arg
     /\ pc = "idle") =>
        result \in {"ok", "TimeoutError"}

\* the running call is in its waiting phase: Go_Home (also within __init__)
\* after its ":MH#", Go_Blocking after its ":MS#"
Waiting ==
    /\ pc \notin {"idle", "dead"}
    /\ \/ op \in {"Go_Home", "init"} /\ CountOf(wire, ":MH#") > 0
       \/ op = "Go_Blocking" /\ CountOf(wire, ":MS#") > 0

\* C16: a step of the waiting phase of Go_Home or Go_Blocking, the one that
\* ends it included, writes nothing or one query (":GAS#", ":GAC#"), and
\* leaves new_Alt and new_Az as they are.
C16_WaitOnlyQueries ==
    [][ Waiting =>
          /\ new_Alt' = new_Alt
          /\ new_Az' = new_Az
          /\ \/ wire' = wire
             \/ Writes(":GAS#")
             \/ Writes(":GAC#") ]_vars

\* C16 witness: Go_Blocking has returned after a poll that found the mount
\* away from the target and a later one that found it there.
C16_Witness ==
    /\ op = "Go_Blocking"
    /\ pc = "idle"
    /\ result = "ok"
    /\ polls >= 1
    /\ wire[Len(wire)] = ":GAC#"

\* C17: between the write of a command and the completion of the read of
\* its reply no other command is written: at no time have two callers
\* written a command whose reply is still to be read.
C17_OneOutstanding ==
    Cardinality({t \in Callers : pc[t] = "ack_r"}) <= 1

\* the argument a is one the claim names as invalid for setter name
InvalidInput(name, a) ==
    CASE name = "Set_TimeOffset" ->
            a.minutes < -720 \/ a.minutes > 780 \/ ~a.is_Int
      [] name = "Set_AltLimit" -> a.limit < -89 \/ a.limit > 89
      [] name = "Set_Latitude" -> a.latitude < -90 \/ a.latitude > 90
      [] name = "Set_Longitude" -> a.longitude < -180 \/ a.longitude > 180
      [] name = "Set_MoveRate" ->
            a.rate \notin {"1x", "2x", "8x", "16x", "64x", "128x", "256x",
                           "512x", "max"}
      [] name = "Set_TrackRate" ->
            a.mode \notin {"siderial", "lunar", "solar", "king", "custom"}
      [] name = "KeyPad" -> a.direction \notin {"up", "down", "left", "right"}
      [] OTHER -> FALSE

\* C18: every step of a call of Set_TimeOffset, Set_AltLimit, Set_Latitude,
\* Set_Longitude, Set_MoveRate, Set_TrackRate or KeyPad with an invalid
\* argument leaves the transport without a write and new_Alt and new_Az
\* unchanged, and the call ends in an error at its first step.
C18_InvalidInputRejected ==
    [][ (op' \in SetterOps /\ InvalidInput(op', arg') /\ pc' # pc) =>
          /\ wire' = <<>>
          /\ pending' = pending
          /\ new_Alt' = new_Alt
          /\ new_Az' = new_Az
          /\ pc = "idle" => pc' = "set_w"
          /\ pc # "idle" =>
                (pc' = "idle" /\ result' \in {"AssertionError", "KeyError"})
      ]_vars

\* C18 witness: Set_TimeOffset given minutes that are not an int has ended
\* in an error, nothing written, with both flags set as they were.
C18_Witness ==
    /\ op = "Set_TimeOffset"
    /\ ~arg.is_Int
    /\ pc = "idle"
    /\ result = "AssertionError"
    /\ wire = <<>>
    /\ new_Alt
    /\ new_Az

\* C19: every step of a call of Set_Meridian or Set_UTCTime writes nothing
\* and leaves new_Alt and new_Az unchanged, and the call ends in
\* NotImplementedError at its first step.
C19_UnsupportedRaises ==
    [][ (op' \in UnsupportedOps /\ pc' # pc) =>
          /\ wire' = <<>>
          /\ pending' = pending
          /\ new_Alt' = new_Alt
          /\ new_Az' = new_Az
          /\ pc = "idle" => pc' = "unsup"
          /\ pc # "idle" =>
                (pc' = "idle" /\ result' = "NotImplementedError") ]_vars

\* C19 witness: Set_Meridian has ended in NotImplementedError with a target
\* staged on both axes.
C19_Witness ==
    /\ op = "Set_Meridian"
    /\ pc = "idle"
    /\ result = "NotImplementedError"
    /\ wire = <<>>
    /\ new_Alt
    /\ new_Az

\* C20: the commands of Go_Delta are, in this order, one ":GAC#", ":Sa" with
\* the altitude it read plus the altitude delta, ":Sz" with the azimuth it
\* read plus the azimuth delta, and ":MS#"; the position is queried once.
C20_DeltaFromOneReading ==
    op = "Go_Delta" =>
        /\ Len(wire) <= 4
        /\ Len(wire) >= 1 => wire[1] = ":GAC#"
        /\ Len(wire) >= 2 =>
              wire[2] = AltitudeCmd(measured[1]
                                      + ToHundredths(arg.alt, arg.units))
        /\ Len(wire) >= 3 =>
              wire[3] = AzimuthCmd(measured[2]
                                     + ToHundredths(arg.az, arg.units))
        /\ Len(wire) >= 4 => wire[4] = ":MS#"
(***************************************************************************)
(* C21: the decoding of the position rejects malformed replies.            *)
(***************************************************************************)
\* the declared form of the reply to ":GAC#": a sign, 8 digits of altitude,
\* 9 digits of azimuth and the terminator
WellFormedAltAz(r) ==
    /\ Len(r) = 19
    /\ CharAt(r, 0) \in {"+", "-"}
    /\ AllDigits(Slice(r, 1, 18))
    /\ CharAt(r, 18) = "#"

\* the reply to ":GAC#" has been read and handled by Get_AltAz, called by the
\* caller or by a poll of Go_Blocking
PositionRead ==
    /\ op \in {"Get_AltAz", "Go_Blocking"}
    /\ wire # <<>>
    /\ wire[Len(wire)] = ":GAC#"
    /\ pc \in {"idle", "at_w"}

\* C21: when the reply read for ":GAC#" has not the declared length or holds
\* a non-digit, Get_AltAz ends in an error: no position is returned, and
\* Go_Blocking neither returns nor polls on upon such a reply.
C21_MalformedPositionRejected ==
    (PositionRead /\ ~WellFormedAltAz(reply)) =>
        (pc = "idle" /\ result \notin {"ok", "True", "False"})

(***************************************************************************)
(* C22: a move follows the acknowledgment of the call's own staging.       *)
(***************************************************************************)
\* C22: when a call of Go_AltAz (made by the caller, or by Go_Blocking or
\* Go_Delta) has written ":MS#", the ":Sa" and the ":Sz" command written by
\* the same call were both acknowledged with 1.
C22_MoveOnlyAfterOwnAcks ==
    (op \in {"Go_AltAz", "Go_Blocking", "Go_Delta"}
        /\ CountOf(wire, ":MS#") > 0) => set_Reply = <<1, 1>>

(***************************************************************************)
(* C23: a reply belongs to the command it is returned for.                 *)
(***************************************************************************)
\* the step is a read of _SendMessage that returns bytes: they leave the
\* input buffer, and the mount answers nothing in the step
ReturnsBytes == rx' # rx /\ pending' = pending

\* the bytes the read returns are the mount's answer to the command written
\* last.  The mount answers the commands in their order and each answer
\* whole, so this is the case when the mount has answered every command and
\* the buffer holds one answer of that command's length, all of it returned.
OwnReply ==
    /\ pending = <<>>
    /\ Len(rx) = AnswerLen(wire[Len(wire)])
    /\ reply' = rx

\* C23: every read of _SendMessage that returns bytes returns the mount's
\* answer to the command just written, also after a read that timed out:
\* no byte of a late answer to an earlier command is returned for a later one.
C23_ReplyOfSameCommand == [][ReturnsBytes => OwnReply]_vars

(***************************************************************************)
(* C24: Go_Blocking ends once the mount rests at the commanded position.   *)
(***************************************************************************)
\* the step is a poll of Go_Blocking, after an accepted move, that reads the
\* reply of a mount stopped exactly at the commanded altitude and azimuth
PollAtRest ==
    /\ op = "Go_Blocking"
    /\ arg.units \in units_Allowed
    /\ move_Reply = 1
    /\ pc = "at_r"
    /\ pc' # "at_r"
    /\ mSys \in StoppedDigits
    /\ mPos = <<ToHundredths(arg.alt, arg.units),
                ToHundredths(arg.az, arg.units)>>
    /\ reply' = FormatAltAz(mPos)

\* C24: whatever the allowed unit of the call, a poll of Go_Blocking that
\* finds the mount stopped exactly at the commanded position ends the call:
\* Go_Blocking returns.  (The arrival test depends on the reading alone, so
\* that a poll which goes on from such a reading is followed by polls that
\* do the same for as long as the mount stays there.)
C24_ReturnsAtCommandedPosition ==
    [][PollAtRest => (pc' = "idle" /\ result' = "ok")]_vars

====
